---- MODULE Spec2Model ----
(***************************************************************************)
(* Enrollment Management Dashboard (app.py): the Streamlit script as a     *)
(* state machine.  One script run is a sequence of steps (load, sidebar,   *)
(* statistics, the three tabs, download); between runs the session is idle *)
(* and the user may change the year selection or the data file may change. *)
(*                                                                         *)
(* Value encoding                                                          *)
(*   text / object cells   TLA+ strings; the missing value NaN is "NaN"    *)
(*   datetime64 cells      records [y, m, d]; NaT is the all-zero record   *)
(*   floats                <<num, den>> in lowest terms, den > 0; the      *)
(*                         float NaN is <<>>                               *)
(*   "%Y-%m" strings       <<year, month>>; their NaN is <<>>              *)
(*   a DataFrame           [columns |-> set of names,                      *)
(*                          rows |-> sequence of functions columns -> cell]*)
(*   the CSV file          the same shape with text cells, plus `exists`   *)
(***************************************************************************)
EXTENDS Integers, Sequences, FiniteSets, TLC

\* ------------------------------------------------------------------ bounds
MaxRows == 2

\* --------------------------------------------------------- generic helpers
Range(s) == { s[i] : i \in 1..Len(s) }

RECURSIVE SumOver(_, _)
SumOver(f, S) ==
    IF S = {} THEN 0
    ELSE LET x == CHOOSE e \in S : TRUE IN f[x] + SumOver(f, S \ {x})

Abs(n) == IF n < 0 THEN -n ELSE n

RECURSIVE GCD(_, _)
GCD(a, b) == IF b = 0 THEN a ELSE GCD(b, a % b)

\* the float num/den
Frac(num, den) ==
    LET g == GCD(Abs(num), den) IN << num \div g, den \div g >>

NaN == "NaN"
NaNf == << >>
NaT == [y |-> 0, m |-> 0, d |-> 0]

\* ------------------------------------------------------------- the columns
date_columns ==
    { "Inquiry Date Submitted", "Application Date Submitted",
      "Candidate decision date", "School Decision Date" }

SourceColumns ==
    { "Entering Year", "Entering Grade", "Candidate Status", "Candidate Decision",
      "Gender", "International", "Financial Aid" } \cup date_columns

stages == << "Inquiry", "Applicant", "File Complete", "Decision", "Contract" >>

grade_order ==
    << "Kindergarten", "Grade 1", "Grade 2", "Grade 3", "Grade 4",
       "Grade 5", "Grade 6", "Grade 7", "Grade 8", "Grade 9",
       "Grade 10", "Grade 11", "Grade 12" >>

month_order ==
    << "August", "September", "October", "November", "December",
       "January", "February", "March", "April", "May", "June", "July" >>

\* strftime('%B'): the month's English name, by calendar number
CalendarMonths ==
    << "January", "February", "March", "April", "May", "June", "July",
       "August", "September", "October", "November", "December" >>

\* ------------------------------------------------------- text <-> values
\* The date texts of the modelled files and the dates they denote.
DateTexts ==
    << << "2022-08-01", [y |-> 2022, m |-> 8,  d |-> 1]  >>,
       << "2022-10-30", [y |-> 2022, m |-> 10, d |-> 30] >>,
       << "2022-11-05", [y |-> 2022, m |-> 11, d |-> 5]  >>,
       << "2023-01-10", [y |-> 2023, m |-> 1,  d |-> 10] >>,
       << "2023-02-09", [y |-> 2023, m |-> 2,  d |-> 9]  >>,
       << "2023-09-15", [y |-> 2023, m |-> 9,  d |-> 15] >> >>

YearTexts == << << "2022", 2022 >>, << "2023", 2023 >> >>

\* pandas' default na_values among the texts of the modelled files
NaTexts == { "", "NaN", "n/a" }

\* pd.to_datetime(text, errors='coerce'): the date, NaT when it does not parse
to_datetime(text) ==
    IF \E i \in 1..Len(DateTexts) : DateTexts[i][1] = text
    THEN DateTexts[CHOOSE i \in 1..Len(DateTexts) : DateTexts[i][1] = text][2]
    ELSE NaT

\* read_csv's parse of one cell of an integer column
ParseInt(text) ==
    YearTexts[CHOOSE i \in 1..Len(YearTexts) : YearTexts[i][1] = text][2]

\* read_csv's parse of one cell of a text column: na_values become NaN
ParseText(text) == IF text \in NaTexts THEN NaN ELSE text

\* pd.read_csv on the file's rows (the date columns are still text)
read_csv(file) ==
    [ columns |-> file.columns,
      rows |-> [ i \in 1..Len(file.rows) |->
                 [ c \in file.columns |->
                     IF c = "Entering Year" THEN ParseInt(file.rows[i][c])
                     ELSE IF c \in date_columns THEN file.rows[i][c]
                     ELSE ParseText(file.rows[i][c]) ] ] ]

\* the body of load_data once the file is known to exist and to hold the date
\* columns: read, then coerce the four date columns
load_data(file) ==
    LET raw == read_csv(file) IN
    [ columns |-> raw.columns,
      rows |-> [ i \in 1..Len(raw.rows) |->
                 [ c \in raw.columns |->
                     IF c \in date_columns THEN to_datetime(raw.rows[i][c])
                     ELSE raw.rows[i][c] ] ] ]

\* ------------------------------------------------------ the modelled files
Rec(yr, gr, st, dec, g, intl, fa, inq, app, cdd, sdd) ==
    [ c \in SourceColumns |->
        CASE c = "Entering Year" -> yr
          [] c = "Entering Grade" -> gr
          [] c = "Candidate Status" -> st
          [] c = "Candidate Decision" -> dec
          [] c = "Gender" -> g
          [] c = "International" -> intl
          [] c = "Financial Aid" -> fa
          [] c = "Inquiry Date Submitted" -> inq
          [] c = "Application Date Submitted" -> app
          [] c = "Candidate decision date" -> cdd
          [] c = "School Decision Date" -> sdd ]

\* Candidate records the files are made of: every pipeline stage, a status
\* outside the pipeline, a missing status, accepted and not accepted
\* candidates at several stages, dates present, absent and unparsable, and a
\* decision date before the application date.
SampleRows ==
    { Rec("2023", "Grade 1",  "Inquiry",       "",         "F", "No",  "Yes", "2023-09-15", "",           "",           ""),
      Rec("2023", "Grade 2",  "Inquiry",       "Accepted", "M", "Yes", "No",  "",           "",           "",           ""),
      Rec("2022", "Grade 1",  "Inquiry",       "",         "M", "No",  "No",  "TBD",        "",           "",           ""),
      Rec("2022", "Pre-K",    "Inquiry",       "",         "F", "No",  "",    "2022-08-01", "",           "",           ""),
      Rec("2023", "Grade 2",  "Applicant",     "Accepted", "F", "No",  "Yes", "2022-08-01", "2023-01-10", "",           "2023-02-09"),
      Rec("2022", "Grade 10", "Applicant",     "Denied",   "M", "Yes", "No",  "",           "2022-11-05", "",           ""),
      Rec("2023", "Grade 9",  "File Complete", "",         "",  "No",  "No",  "2022-08-01", "2023-01-10", "",           ""),
      Rec("2022", "Grade 9",  "Decision",      "Accepted", "F", "No",  "Yes", "",           "2022-11-05", "",           "2022-10-30"),
      Rec("2023", "Grade 10", "Contract",      "Accepted", "M", "No",  "No",  "2022-08-01", "2023-01-10", "2023-02-09", "2023-02-09"),
      Rec("2022", "Grade 1",  "Withdrawn",     "Accepted", "F", "Yes", "No",  "2022-08-01", "",           "",           "2022-10-30"),
      Rec("2022", "Grade 2",  "",              "",         "M", "No",  "Yes", "",           "soon",       "",           "") }

\* Columns a modelled file may lack (one at a time)
DroppableColumns ==
    { "Entering Year", "Candidate Status", "Entering Grade", "Gender",
      "School Decision Date" }

ColumnSets == { SourceColumns } \cup { SourceColumns \ {c} : c \in DroppableColumns }

Project(r, cols) == [ c \in cols |-> r[c] ]

RowSeqs == UNION { [1..n -> SampleRows] : n \in 0..MaxRows }

AbsentFile == [ exists |-> FALSE, columns |-> {}, rows |-> << >> ]

Files ==
    { AbsentFile } \cup
    { [ exists |-> TRUE, columns |-> cols,
        rows |-> [ i \in 1..Len(rs) |-> Project(rs[i], cols) ] ] :
      cols \in ColumnSets, rs \in RowSeqs }


\* ------------------------------------------------------------ pandas steps
\* a column of a frame, as a Series (indexed like the rows)
Column(t, c) == [ i \in 1..Len(t.rows) |-> t.rows[i][c] ]

\* isin, except that an empty list of values selects every row
isin_empty_selects_all(series, values) ==
    [ i \in 1..Len(series) |-> values = {} \/ series[i] \in values ]

\* Series.isin(values)
isin(series, values) == [ i \in 1..Len(series) |-> series[i] \in values ]

\* Series == value (NaN equals nothing)
eq(series, value) == [ i \in 1..Len(series) |-> series[i] # NaN /\ series[i] = value ]

RECURSIVE TakeRows(_, _, _)
TakeRows(rows, mask, i) ==
    IF i > Len(rows) THEN << >>
    ELSE (IF mask[i] THEN << rows[i] >> ELSE << >>) \o TakeRows(rows, mask, i + 1)

\* frame[mask]: the rows whose mask is True, in order, in a new frame
BoolIndex(t, mask) == [ columns |-> t.columns, rows |-> TakeRows(t.rows, mask, 1) ]

\* frame[name] = series
SetColumn(t, name, series) ==
    [ columns |-> t.columns \cup {name},
      rows |-> [ i \in 1..Len(t.rows) |->
                 [ c \in t.columns \cup {name} |->
                     IF c = name THEN series[i] ELSE t.rows[i][c] ] ] ]

\* stable sort of a sequence of <<key, item>> pairs by ascending integer key
RECURSIVE InsertPair(_, _)
InsertPair(sorted, p) ==
    IF sorted = << >> THEN << p >>
    ELSE IF p[1] < sorted[1][1] THEN << p >> \o sorted
    ELSE << sorted[1] >> \o InsertPair(Tail(sorted), p)

RECURSIVE SortPairs(_)
SortPairs(pairs) ==
    IF pairs = << >> THEN << >>
    ELSE InsertPair(SortPairs(SubSeq(pairs, 1, Len(pairs) - 1)), pairs[Len(pairs)])

Items(pairs) == [ i \in 1..Len(pairs) |-> pairs[i][2] ]

\* sorted(set of integers)
sorted(S) ==
    LET RECURSIVE Asc(_)
        Asc(T) == IF T = {} THEN << >>
                  ELSE LET lo == CHOOSE x \in T : \A z \in T : x <= z
                       IN << lo >> \o Asc(T \ {lo})
    IN Asc(S)

Count(series, v) == Cardinality({ i \in 1..Len(series) : series[i] = v })

\* the distinct values of a Series other than its missing value `na`, in order
\* of first appearance
RECURSIVE Distinct(_, _, _)
Distinct(series, na, i) ==
    IF i > Len(series) THEN << >>
    ELSE (IF series[i] = na \/ \E j \in 1..(i - 1) : series[j] = series[i]
          THEN << >> ELSE << series[i] >>) \o Distinct(series, na, i + 1)

\* Series.value_counts().reset_index(): <<value, count>> rows, NaN dropped,
\* most frequent first
value_counts(series) ==
    LET vals == Distinct(series, NaN, 1) IN
    Items(SortPairs([ i \in 1..Len(vals) |->
        << 0 - Count(series, vals[i]), << vals[i], Count(series, vals[i]) >> >> ]))

\* pd.crosstab(a, b): a dense count matrix over the values that occur, rows
\* with a NaN in either Series left out
crosstab(a, b) ==
    LET keep == { i \in 1..Len(a) : a[i] # NaN /\ b[i] # NaN } IN
    [ g \in { a[i] : i \in keep } |->
        [ s \in { b[i] : i \in keep } |->
            Cardinality({ i \in keep : a[i] = g /\ b[i] = s }) ] ]

\* Series.dt.strftime('%B')
strftime_B(date) == IF date = NaT THEN NaN ELSE CalendarMonths[date.m]

\* Series.dt.strftime('%Y-%m')
strftime_Ym(date) == IF date = NaT THEN NaNf ELSE << date.y, date.m >>

\* days since 1970-01-01 of a civil date
Ordinal(date) ==
    LET yy  == IF date.m <= 2 THEN date.y - 1 ELSE date.y
        era == yy \div 400
        yoe == yy - era * 400
        mp  == (date.m + 9) % 12
        doy == (153 * mp + 2) \div 5 + date.d - 1
        doe == yoe * 365 + yoe \div 4 - yoe \div 100 + doy
    IN era * 146097 + doe - 719468

\* (later - earlier).dt.days: NaN when either is NaT
days_between(later, earlier) ==
    IF later = NaT \/ earlier = NaT THEN NaNf
    ELSE << Ordinal(later) - Ordinal(earlier), 1 >>

\* the merge with how='inner': left rows that match nothing are dropped
RECURSIVE merge_inner(_, _)
merge_inner(left, right) ==
    IF left = << >> THEN << >>
    ELSE LET hits == SelectSeq(right, LAMBDA r : r[1] = Head(left)) IN
         [ i \in 1..Len(hits) |-> << hits[i][1], << hits[i][2], 1 >> >> ]
         \o merge_inner(Tail(left), right)

\* pd.merge(left, right, on=key, how='left') of a one-column left frame with
\* <<key, count>> rows: every left row, once per matching right row, and once
\* with a NaN count when nothing matches; the count column becomes float
RECURSIVE merge_left(_, _)
merge_left(left, right) ==
    IF left = << >> THEN << >>
    ELSE LET hits == SelectSeq(right, LAMBDA r : r[1] = Head(left)) IN
         (IF hits = << >> THEN << << Head(left), NaNf >> >>
          ELSE [ i \in 1..Len(hits) |-> << hits[i][1], << hits[i][2], 1 >> >> ])
         \o merge_left(Tail(left), right)

\* .fillna(0).astype(int) on one float
fillna0_int(x) == IF x = NaNf THEN 0 ELSE x[1] \div x[2]

\* position of a value in a category list, Len + 1 when it is no category
CategoryCode(categories, v) ==
    IF \E i \in 1..Len(categories) : categories[i] = v
    THEN CHOOSE i \in 1..Len(categories) : categories[i] = v
    ELSE Len(categories) + 1

\* pd.Categorical(values, categories): a value outside the categories is NaN
Categorical(categories, v) ==
    IF CategoryCode(categories, v) <= Len(categories) THEN v ELSE NaN

Reverse(s) == [ i \in 1..Len(s) |-> s[Len(s) + 1 - i] ]

\* ------------------------------------------------------------- derivations
\* Each takes the filtered frame f.

total_inquiries(f) ==
    Len(BoolIndex(f, eq(Column(f, "Candidate Status"), "Inquiry")).rows)

\* total_applications with the Inquiry stage in its list
total_applications_with_inquiry(f) ==
    Len(BoolIndex(f, isin(Column(f, "Candidate Status"),
                          {"Inquiry", "Applicant", "File Complete", "Decision", "Contract"})).rows)

total_applications(f) ==
    Len(BoolIndex(f, isin(Column(f, "Candidate Status"),
                          {"Applicant", "File Complete", "Decision", "Contract"})).rows)

total_accepted(f) ==
    Len(BoolIndex(f, eq(Column(f, "Candidate Decision"), "Accepted")).rows)

total_contracts(f) ==
    Len(BoolIndex(f, eq(Column(f, "Candidate Status"), "Contract")).rows)

\* Python's a / b
Raised == << "ZeroDivisionError" >>
truediv(a, b) == IF b = 0 THEN Raised ELSE Frac(a, b)

\* x * 100 on a float
times100(x) == IF x = Raised THEN Raised ELSE Frac(x[1] * 100, x[2])

\* acceptance_rate held to at most 100
acceptance_rate_clamped(accepted, applications) ==
    IF applications > 0
    THEN (IF accepted > applications THEN << 100, 1 >>
          ELSE times100(truediv(accepted, applications)))
    ELSE << 0, 1 >>

acceptance_rate(accepted, applications) ==
    IF applications > 0 THEN times100(truediv(accepted, applications)) ELSE << 0, 1 >>

\* yield_rate without its guard
yield_rate_unguarded(contracts, accepted) == times100(truediv(contracts, accepted))

yield_rate(contracts, accepted) ==
    IF accepted > 0 THEN times100(truediv(contracts, accepted)) ELSE << 0, 1 >>

stage_counts(f) ==
    [ k \in 1..Len(stages) |->
        Len(BoolIndex(f, eq(Column(f, "Candidate Status"), stages[k])).rows) ]

status_by_grade(f) ==
    crosstab(Column(f, "Entering Grade"), Column(f, "Candidate Status"))

\* <<Grade Level, Number of Inquiries>> rows in the canonical grade order; a
\* grade outside grade_order is kept as a row whose label is NaN, after the rest
grade_inquiries(f) ==
    LET inq    == BoolIndex(f, eq(Column(f, "Candidate Status"), "Inquiry"))
        counts == value_counts(Column(inq, "Entering Grade"))
    IN Items(SortPairs([ i \in 1..Len(counts) |->
           << CategoryCode(grade_order, counts[i][1]),
              << Categorical(grade_order, counts[i][1]), counts[i][2] >> >> ]))

\* pd.to_datetime(series, format='mixed', errors='coerce') on a column that is
\* already datetime64 returns its values
to_datetime_mixed(date) == date

\* <<Month, Number of Inquiries>> rows, sorted by month_order descending
monthly_inquiries(f) ==
    LET inquiries_df   == BoolIndex(f, eq(Column(f, "Candidate Status"), "Inquiry"))
        submitted      == Column(inquiries_df, "Inquiry Date Submitted")
        Inquiry_Date   == [ i \in 1..Len(submitted) |-> to_datetime_mixed(submitted[i]) ]
        Month          == [ i \in 1..Len(Inquiry_Date) |-> strftime_B(Inquiry_Date[i]) ]
        monthly_counts == value_counts(Month)
        merged         == merge_left(month_order, monthly_counts)
        filled         == [ i \in 1..Len(merged) |->
                              << merged[i][1], fillna0_int(merged[i][2]) >> ]
    IN Reverse(Items(SortPairs([ i \in 1..Len(filled) |->
           << CategoryCode(month_order, filled[i][1]), filled[i] >> ])))

\* Series.value_counts() of a text column, as <<category, count>> rows
dist(f, column) == value_counts(Column(f, column))

Application_Month(f) ==
    [ i \in 1..Len(f.rows) |-> strftime_Ym(f.rows[i]["Application Date Submitted"]) ]

\* groupby('Application Month').size(), sorted by month: <<month, count>> rows
monthly_apps(f) ==
    LET col  == Column(f, "Application Month")
        keys == Distinct(col, NaNf, 1)
    IN Items(SortPairs([ i \in 1..Len(keys) |->
           << keys[i][1] * 100 + keys[i][2], << keys[i], Count(col, keys[i]) >> >> ]))

Days_to_Decision(f) ==
    [ i \in 1..Len(f.rows) |->
        days_between(f.rows[i]["School Decision Date"],
                     f.rows[i]["Application Date Submitted"]) ]

\* Series.mean() of the floats at the row positions `at`: NaN values skipped,
\* NaN when none is left
mean(series, at) ==
    LET valid == { i \in at : series[i] # NaNf } IN
    IF valid = {} THEN NaNf
    ELSE Frac(SumOver([ i \in valid |-> series[i][1] ], valid), Cardinality(valid))

\* groupby('Entering Year')['Days_to_Decision'].mean().reset_index():
\* <<Year, Average Days>> rows, one per year of the frame, ascending
avg_decision_time(f) ==
    LET year  == Column(f, "Entering Year")
        days  == Column(f, "Days_to_Decision")
        years == sorted(Range(year))
    IN [ k \in 1..Len(years) |->
           << years[k], mean(days, { i \in 1..Len(year) : year[i] = years[k] }) >> ]

\* ------------------------------------------------------------------ export
FormatInt(n) ==
    YearTexts[CHOOSE i \in 1..Len(YearTexts) : YearTexts[i][2] = n][1]

\* a datetime cell as to_csv writes it: ISO text, nothing for NaT
FormatDate(date) ==
    IF date = NaT THEN ""
    ELSE DateTexts[CHOOSE i \in 1..Len(DateTexts) : DateTexts[i][2] = date][1]

\* frame.to_csv(index=False): a header of the frame's columns and one line per
\* row.  A cell of a column added by the script is written as itself.
to_csv(f) ==
    [ exists |-> TRUE,
      columns |-> f.columns,
      rows |-> [ i \in 1..Len(f.rows) |->
                 [ c \in f.columns |->
                     LET v == f.rows[i][c] IN
                     IF c = "Entering Year" THEN FormatInt(v)
                     ELSE IF c \in date_columns THEN FormatDate(v)
                     ELSE IF c \in SourceColumns THEN (IF v = NaN THEN "" ELSE v)
                     ELSE v ] ] ]

\* ------------------------------------------------------------------- state
VARIABLES
    storage,         \* data/enrollment.csv as it is on disk
    cache,           \* st.cache_data: the keys that hold a stored result
    cached_from,     \* history: the file content the stored result was read from
    frames,          \* the DataFrame objects in memory, by object
    df,              \* the script's name df: the object it is bound to
    filtered_df,     \* the script's name filtered_df: the object it is bound to
    multiselect,     \* the year widget: its options and the user's choice
    selected_years,  \* the script's name selected_years
    out,             \* the script's other names, once assigned
    rendered,        \* the elements this run has put on the page
    error,           \* the exception that ended this run, and the step it left
    read_storage,    \* whether this run's load_data() call read the file
    pc               \* the step the script is at; "idle" between runs

vars == << storage, cache, cached_from, frames, df, filtered_df, multiselect,
           selected_years, out, rendered, error, read_storage, pc >>

Objects == { "cache_obj", "df_obj", "filtered_obj" }
Unbound == "unbound"
NoFrame == [ columns |-> {}, rows |-> << >> ]
NoError == [ type |-> "none", at |-> "none" ]
NoNames == [ n \in {} |-> 0 ]

\* st.cache_data keys a call by the function and its arguments; load_data
\* takes none, so every call has the one key
CacheKey(file) == "load_data()"

\* st.cache_data hands each caller a fresh copy of the stored value
cache_data_returns(stored) == "df_obj"

\* frame[mask] as a view: the result is the source object itself
BoolIndexObject_view(source) == source

\* frame[mask] builds a new object
BoolIndexObject(source) == "filtered_obj"

\* sorted(df['Entering Year'].unique())
YearOptions(t) == sorted(Range(Column(t, "Entering Year")))

\* options[-3:]
DefaultYears(options) ==
    { options[i] : i \in { j \in 1..Len(options) : j > Len(options) - 3 } }

Init ==
    /\ storage \in Files
    /\ cache = {}
    /\ cached_from = AbsentFile
    /\ frames = [ o \in Objects |-> NoFrame ]
    /\ df = Unbound
    /\ filtered_df = Unbound
    /\ multiselect = [ options |-> << >>, touched |-> FALSE, years |-> {} ]
    /\ selected_years = {}
    /\ out = NoNames
    /\ rendered = {}
    /\ error = NoError
    /\ read_storage = FALSE
    /\ pc = "load"

\* an uncaught exception ends the run; what was rendered stays on the page
Raise(type) ==
    /\ error' = [ type |-> type, at |-> pc ]
    /\ pc' = "idle"

\* lines 11-25: df = load_data() through st.cache_data
LoadData ==
    /\ pc = "load"
    /\ IF CacheKey(storage) \in cache
       THEN /\ frames' = [ frames EXCEPT ![cache_data_returns("cache_obj")] =
                                            frames["cache_obj"] ]
            /\ df' = cache_data_returns("cache_obj")
            /\ read_storage' = FALSE
            /\ pc' = "sidebar"
            /\ UNCHANGED << cache, cached_from, error >>
       ELSE /\ read_storage' = TRUE
            /\ IF ~storage.exists
               THEN /\ Raise("FileNotFoundError")
                    /\ UNCHANGED << cache, cached_from, frames, df >>
               ELSE IF ~(date_columns \subseteq storage.columns)
               THEN /\ Raise("KeyError")
                    /\ UNCHANGED << cache, cached_from, frames, df >>
               ELSE /\ cache' = cache \cup { CacheKey(storage) }
                    /\ cached_from' = storage
                    /\ frames' =
                         [ o \in Objects |->
                             IF o = cache_data_returns("cache_obj") \/ o = "cache_obj"
                             THEN load_data(storage) ELSE frames[o] ]
                    /\ df' = cache_data_returns("cache_obj")
                    /\ pc' = "sidebar"
                    /\ UNCHANGED error
    /\ UNCHANGED << storage, filtered_df, multiselect, selected_years, out, rendered >>

\* lines 27-38: the sidebar title, the year multiselect and the filter
Sidebar ==
    /\ pc = "sidebar"
    /\ IF "Entering Year" \notin frames[df].columns
       THEN /\ Raise("KeyError")
            /\ rendered' = rendered \cup { "sidebar_title" }
            /\ UNCHANGED << frames, filtered_df, multiselect, selected_years >>
       ELSE LET options == YearOptions(frames[df])
                chosen  == IF multiselect.touched /\ multiselect.options = options
                           THEN multiselect.years ELSE DefaultYears(options)
                target  == BoolIndexObject(df)
            IN /\ multiselect' = [ options |-> options,
                                   touched |-> multiselect.touched
                                               /\ multiselect.options = options,
                                   years |-> chosen ]
               /\ selected_years' = chosen
               /\ filtered_df' = target
               /\ frames' = [ frames EXCEPT ![target] =
                    BoolIndex(frames[df], isin(Column(frames[df], "Entering Year"), chosen)) ]
               /\ rendered' = rendered \cup { "sidebar_title", "year_multiselect" }
               /\ pc' = "statistics"
               /\ UNCHANGED error
    /\ UNCHANGED << storage, cache, cached_from, df, out, read_storage >>

\* the frame the name filtered_df is bound to
Filtered == frames[filtered_df]

\* lines 40-97: the title, the four totals, the cards, the two rates, the metrics
Statistics ==
    /\ pc = "statistics"
    /\ IF "Candidate Status" \notin Filtered.columns
          \/ "Candidate Decision" \notin Filtered.columns
       THEN /\ Raise("KeyError")
            /\ rendered' = rendered \cup { "title" }
            /\ UNCHANGED out
       ELSE LET inquiries    == total_inquiries(Filtered)
                applications == total_applications(Filtered)
                accepted     == total_accepted(Filtered)
                contracts    == total_contracts(Filtered)
                acceptance   == acceptance_rate(accepted, applications)
                yield        == yield_rate(contracts, accepted)
                totals       == [ total_inquiries |-> inquiries,
                                  total_applications |-> applications,
                                  total_accepted |-> accepted,
                                  total_contracts |-> contracts ]
            IN IF acceptance = Raised \/ yield = Raised
               THEN /\ Raise("ZeroDivisionError")
                    /\ rendered' = rendered \cup { "title", "stat_cards" }
                    /\ out' = totals @@ out
               ELSE /\ out' = [ acceptance_rate |-> acceptance,
                                yield_rate |-> yield ] @@ totals @@ out
                    /\ rendered' = rendered \cup { "title", "stat_cards", "metrics" }
                    /\ pc' = "funnel"
                    /\ UNCHANGED error
    /\ UNCHANGED << storage, cache, cached_from, frames, df, filtered_df,
                    multiselect, selected_years, read_storage >>

\* lines 104-115: the pipeline funnel
Funnel ==
    /\ pc = "funnel"
    /\ IF "Candidate Status" \notin Filtered.columns
       THEN /\ Raise("KeyError")
            /\ UNCHANGED << out, rendered >>
       ELSE /\ out' = [ stage_counts |-> stage_counts(Filtered) ] @@ out
            /\ rendered' = rendered \cup { "fig_funnel" }
            /\ pc' = "status_by_grade"
            /\ UNCHANGED error
    /\ UNCHANGED << storage, cache, cached_from, frames, df, filtered_df,
                    multiselect, selected_years, read_storage >>

\* lines 117-135: status by grade level
StatusByGrade ==
    /\ pc = "status_by_grade"
    /\ IF "Entering Grade" \notin Filtered.columns
          \/ "Candidate Status" \notin Filtered.columns
       THEN /\ Raise("KeyError")
            /\ UNCHANGED << out, rendered >>
       ELSE /\ out' = [ status_by_grade |-> status_by_grade(Filtered) ] @@ out
            /\ rendered' = rendered \cup { "fig_status" }
            /\ pc' = "grade_inquiries"
            /\ UNCHANGED error
    /\ UNCHANGED << storage, cache, cached_from, frames, df, filtered_df,
                    multiselect, selected_years, read_storage >>

\* lines 137-179: inquiries by grade level
GradeInquiries ==
    /\ pc = "grade_inquiries"
    /\ IF "Candidate Status" \notin Filtered.columns
          \/ "Entering Grade" \notin Filtered.columns
       THEN /\ Raise("KeyError")
            /\ UNCHANGED << out, rendered >>
       ELSE /\ out' = [ grade_inquiries |-> grade_inquiries(Filtered) ] @@ out
            /\ rendered' = rendered \cup { "fig_grade_inquiry" }
            /\ pc' = "monthly_inquiries"
            /\ UNCHANGED error
    /\ UNCHANGED << storage, cache, cached_from, frames, df, filtered_df,
                    multiselect, selected_years, read_storage >>

\* lines 181-263: inquiries by month
MonthlyInquiries ==
    /\ pc = "monthly_inquiries"
    /\ IF "Candidate Status" \notin Filtered.columns
          \/ "Inquiry Date Submitted" \notin Filtered.columns
       THEN /\ Raise("KeyError")
            /\ UNCHANGED << out, rendered >>
       ELSE /\ out' = [ monthly_inquiries |-> monthly_inquiries(Filtered) ] @@ out
            /\ rendered' = rendered \cup { "fig_monthly_inquiry" }
            /\ pc' = "demographics"
            /\ UNCHANGED error
    /\ UNCHANGED << storage, cache, cached_from, frames, df, filtered_df,
                    multiselect, selected_years, read_storage >>

\* lines 265-289: the gender, international and financial aid distributions;
\* each chart is drawn before the next column is read
Demographics ==
    /\ pc = "demographics"
    /\ IF "Gender" \notin Filtered.columns
       THEN /\ Raise("KeyError")
            /\ UNCHANGED << out, rendered >>
       ELSE IF "International" \notin Filtered.columns
       THEN /\ Raise("KeyError")
            /\ out' = [ gender_dist |-> dist(Filtered, "Gender") ] @@ out
            /\ rendered' = rendered \cup { "fig_gender" }
       ELSE IF "Financial Aid" \notin Filtered.columns
       THEN /\ Raise("KeyError")
            /\ out' = [ gender_dist |-> dist(Filtered, "Gender"),
                        intl_dist |-> dist(Filtered, "International") ] @@ out
            /\ rendered' = rendered \cup { "fig_gender", "fig_intl" }
       ELSE /\ out' = [ gender_dist |-> dist(Filtered, "Gender"),
                        intl_dist |-> dist(Filtered, "International"),
                        fa_dist |-> dist(Filtered, "Financial Aid") ] @@ out
            /\ rendered' = rendered \cup { "fig_gender", "fig_intl", "fig_fa" }
            /\ pc' = "timeline"
            /\ UNCHANGED error
    /\ UNCHANGED << storage, cache, cached_from, frames, df, filtered_df,
                    multiselect, selected_years, read_storage >>

\* lines 291-306: the application timeline; the month column is written into
\* the object filtered_df is bound to
Timeline ==
    /\ pc = "timeline"
    /\ IF "Application Date Submitted" \in Filtered.columns
       THEN LET with_month == SetColumn(Filtered, "Application Month",
                                        Application_Month(Filtered))
            IN /\ frames' = [ frames EXCEPT ![filtered_df] = with_month ]
               /\ out' = [ monthly_apps |-> monthly_apps(with_month) ] @@ out
               /\ rendered' = rendered \cup { "fig_timeline" }
       ELSE UNCHANGED << frames, out, rendered >>
    /\ pc' = "decision_time"
    /\ UNCHANGED << storage, cache, cached_from, df, filtered_df, multiselect,
                    selected_years, error, read_storage >>

\* lines 308-320: average days to decision; the days column is written into
\* the object filtered_df is bound to
DecisionTime ==
    /\ pc = "decision_time"
    /\ IF "School Decision Date" \notin Filtered.columns
          \/ "Application Date Submitted" \notin Filtered.columns
          \/ "Entering Year" \notin Filtered.columns
       THEN /\ Raise("KeyError")
            /\ UNCHANGED << frames, out, rendered >>
       ELSE LET with_days == SetColumn(Filtered, "Days_to_Decision",
                                       Days_to_Decision(Filtered))
            IN /\ frames' = [ frames EXCEPT ![filtered_df] = with_days ]
               /\ out' = [ avg_decision_time |-> avg_decision_time(with_days) ] @@ out
               /\ rendered' = rendered \cup { "fig_decision_time" }
               /\ pc' = "download"
               /\ UNCHANGED error
    /\ UNCHANGED << storage, cache, cached_from, df, filtered_df, multiselect,
                    selected_years, read_storage >>

\* lines 322-328: the download button carries filtered_df.to_csv(index=False)
Download ==
    /\ pc = "download"
    /\ out' = [ download |-> to_csv(Filtered) ] @@ out
    /\ rendered' = rendered \cup { "download_button" }
    /\ pc' = "idle"
    /\ UNCHANGED << storage, cache, cached_from, frames, df, filtered_df,
                    multiselect, selected_years, error, read_storage >>

\* A new run starts with the script's names unbound and an empty page.
StartRun ==
    /\ pc' = "load"
    /\ df' = Unbound
    /\ filtered_df' = Unbound
    /\ frames' = [ o \in Objects |-> IF o = "cache_obj" THEN frames[o] ELSE NoFrame ]
    /\ selected_years' = {}
    /\ out' = NoNames
    /\ rendered' = {}
    /\ error' = NoError
    /\ read_storage' = FALSE

\* Streamlit reruns the script on any interaction
Rerun ==
    /\ pc = "idle"
    /\ StartRun
    /\ UNCHANGED << storage, cache, cached_from, multiselect >>

\* the user changes the year selection (a subset of the options shown); the
\* script reruns
SelectYears ==
    /\ pc = "idle"
    /\ "year_multiselect" \in rendered
    /\ \E S \in SUBSET Range(multiselect.options) :
         /\ S # multiselect.years
         /\ multiselect' = [ multiselect EXCEPT !.touched = TRUE, !.years = S ]
    /\ StartRun
    /\ UNCHANGED << storage, cache, cached_from >>

\* the data file gains a candidate record between two runs
ChangeSource ==
    /\ pc = "idle"
    /\ storage.exists
    /\ Len(storage.rows) < MaxRows
    /\ \E r \in SampleRows :
         storage' = [ storage EXCEPT !.rows = Append(@, Project(r, storage.columns)) ]
    /\ UNCHANGED << cache, cached_from, frames, df, filtered_df, multiselect,
                    selected_years, out, rendered, error, read_storage, pc >>

Next ==
    \/ LoadData
    \/ Sidebar
    \/ Statistics
    \/ Funnel
    \/ StatusByGrade
    \/ GradeInquiries
    \/ MonthlyInquiries
    \/ Demographics
    \/ Timeline
    \/ DecisionTime
    \/ Download
    \/ Rerun
    \/ SelectYears
    \/ ChangeSource

Spec == Init /\ [][Next]_vars

\* ================================================================== claims
Has(name) == name \in DOMAIN out

\* the table the stored result was read from, as load_data returned it
Loaded == load_data(cached_from)

Status(f) == Column(f, "Candidate Status")

\* the positions of the rows of t whose Entering Year is in S
YearRows(t, S) == { i \in 1..Len(t.rows) : t.rows[i]["Entering Year"] \in S }

\* the k-th smallest element of a set of positions
Kth(at, k) == CHOOSE i \in at : Cardinality({ j \in at : j <= i }) = k

\* C1: right after the filter, filtered_df holds exactly the rows of df whose
\* Entering Year is selected: as many as there are such rows, each once and in
\* the source's order, with the source's columns; an empty selection gives an
\* empty table and no error.
C1_FilterExact ==
    pc = "statistics" =>
        LET at == YearRows(frames[df], selected_years) IN
        /\ error = NoError
        /\ Filtered.columns = frames[df].columns
        /\ Len(Filtered.rows) = Cardinality(at)
        /\ \A k \in 1..Len(Filtered.rows) : Filtered.rows[k] = frames[df].rows[Kth(at, k)]
        /\ (selected_years = {} => Filtered.rows = << >>)

C1_Witness ==
    /\ pc = "statistics"
    /\ selected_years # {}
    /\ Len(Filtered.rows) > 0
    /\ Len(Filtered.rows) < Len(frames[df].rows)

\* C2: every row is counted in at most one of the five stage counts; the
\* rollups are the Inquiry count, the sum of the four later stage counts and
\* the Contract count; inquiries plus applications is the number of rows whose
\* status is one of the five stages, so any other or missing status counts
\* nowhere.
C2_StageCounts ==
    Has("stage_counts") =>
        LET st       == Status(Filtered)
            counts   == out.stage_counts
            in_stage == { i \in 1..Len(st) :
                            \E k \in 1..Len(stages) : st[i] # NaN /\ st[i] = stages[k] }
        IN /\ \A i \in 1..Len(st) :
                Cardinality({ k \in 1..Len(stages) : st[i] = stages[k] }) <= 1
           /\ \A k \in 1..Len(stages) :
                counts[k] = Cardinality({ i \in 1..Len(st) : st[i] = stages[k] })
           /\ out.total_inquiries = counts[1]
           /\ out.total_applications = counts[2] + counts[3] + counts[4] + counts[5]
           /\ out.total_contracts = counts[5]
           /\ out.total_inquiries + out.total_applications = Cardinality(in_stage)

C2_Witness ==
    /\ Has("stage_counts")
    /\ out.total_inquiries + out.total_applications > 0
    /\ \E i \in 1..Len(Filtered.rows) :
         Status(Filtered)[i] \notin Range(stages)

\* C3: the acceptance rate is 0 when there are no applications and otherwise
\* accepted / applications * 100; the yield rate is 0 when nothing is accepted
\* and otherwise contracts / accepted * 100; no run ends in a division by
\* zero, and a rate above 100 is kept as it is.
C3_Rates ==
    /\ error.type # "ZeroDivisionError"
    /\ pc = "funnel" => Has("acceptance_rate") /\ Has("yield_rate")
    /\ Has("acceptance_rate") =>
         out.acceptance_rate =
            IF out.total_applications = 0 THEN << 0, 1 >>
            ELSE Frac(out.total_accepted * 100, out.total_applications)
    /\ Has("yield_rate") =>
         out.yield_rate =
            IF out.total_accepted = 0 THEN << 0, 1 >>
            ELSE Frac(out.total_contracts * 100, out.total_accepted)

C3_Witness ==
    /\ Has("acceptance_rate")
    /\ out.total_applications > 0
    /\ out.acceptance_rate[1] > 100 * out.acceptance_rate[2]

\* C4: inquiries-by-month has exactly 12 rows, one for each month name of
\* August..July, each count a natural number equal to the number of Inquiry
\* rows with a date in that month, and the counts sum to the number of Inquiry
\* rows that have an inquiry date; an Inquiry row without a date is in no month.
C4_MonthlyInquiries ==
    Has("monthly_inquiries") =>
        LET mi    == out.monthly_inquiries
            st    == Status(Filtered)
            date  == Column(Filtered, "Inquiry Date Submitted")
            dated == { i \in 1..Len(st) : st[i] = "Inquiry" /\ date[i] # NaT }
        IN /\ Len(mi) = 12
           /\ \A m \in Range(month_order) :
                Cardinality({ i \in 1..Len(mi) : mi[i][1] = m }) = 1
           /\ \A i \in 1..Len(mi) :
                /\ mi[i][2] \in Nat
                /\ mi[i][2] = Cardinality({ j \in dated :
                                 CalendarMonths[date[j].m] = mi[i][1] })
           /\ SumOver([ i \in 1..Len(mi) |-> mi[i][2] ], 1..Len(mi)) = Cardinality(dated)

C4_Witness ==
    /\ Has("monthly_inquiries")
    /\ \E i, j \in 1..Len(Filtered.rows) :
         /\ Status(Filtered)[i] = "Inquiry"
         /\ Status(Filtered)[j] = "Inquiry"
         /\ Filtered.rows[i]["Inquiry Date Submitted"] = NaT
         /\ Filtered.rows[j]["Inquiry Date Submitted"] # NaT

\* the years of f that have a row with both an application date and a school
\* decision date
YearsWithPair(f) ==
    { f.rows[i]["Entering Year"] : i \in
        { j \in 1..Len(f.rows) :
            /\ f.rows[j]["Application Date Submitted"] # NaT
            /\ f.rows[j]["School Decision Date"] # NaT } }

\* C5: average decision latency has one row exactly for each Entering Year
\* with at least one row carrying both dates; a year whose rows all lack a date
\* is left out, and no row's average is NaN.
C5_AvgDecisionTime ==
    Has("avg_decision_time") =>
        LET avg == out.avg_decision_time IN
        /\ { avg[k][1] : k \in 1..Len(avg) } = YearsWithPair(Filtered)
        /\ \A y \in YearsWithPair(Filtered) :
             Cardinality({ k \in 1..Len(avg) : avg[k][1] = y }) = 1
        /\ \A k \in 1..Len(avg) : avg[k][2] # NaNf

\* the names every run assigns when nothing raises
AllNames ==
    { "total_inquiries", "total_applications", "total_accepted", "total_contracts",
      "acceptance_rate", "yield_rate", "stage_counts", "status_by_grade",
      "grade_inquiries", "monthly_inquiries", "gender_dist", "intl_dist", "fa_dist",
      "monthly_apps", "avg_decision_time", "download" }

\* C6: when the filtered table of a source with all its columns is empty, no
\* step raises, the run reaches its end with every derivation made, and each
\* result is the zero or empty one: the four totals and the two rates are 0,
\* the five funnel counts are 0, inquiries-by-month is 12 rows of 0, and the
\* cross-tabulation, inquiries-by-grade, the timeline, the average decision
\* latency and the three distributions have no rows.
C6_EmptyFiltered ==
    ( /\ filtered_df # Unbound
      /\ Filtered.rows = << >>
      /\ SourceColumns \subseteq frames[df].columns ) =>
        /\ error = NoError
        /\ pc = "idle" => DOMAIN out = AllNames
        /\ Has("total_inquiries") =>
             /\ out.total_inquiries = 0
             /\ out.total_applications = 0
             /\ out.total_accepted = 0
             /\ out.total_contracts = 0
        /\ Has("acceptance_rate") => out.acceptance_rate = << 0, 1 >>
        /\ Has("yield_rate") => out.yield_rate = << 0, 1 >>
        /\ Has("stage_counts") => out.stage_counts = << 0, 0, 0, 0, 0 >>
        /\ Has("monthly_inquiries") =>
             /\ Len(out.monthly_inquiries) = 12
             /\ \A i \in 1..12 : out.monthly_inquiries[i][2] = 0
        /\ Has("status_by_grade") => DOMAIN out.status_by_grade = {}
        /\ Has("grade_inquiries") => out.grade_inquiries = << >>
        /\ Has("monthly_apps") => out.monthly_apps = << >>
        /\ Has("avg_decision_time") => out.avg_decision_time = << >>
        /\ Has("gender_dist") => out.gender_dist = << >>
        /\ Has("intl_dist") => out.intl_dist = << >>
        /\ Has("fa_dist") => out.fa_dist = << >>

C6_Witness ==
    /\ pc = "idle"
    /\ Has("download")
    /\ selected_years = {}
    /\ Len(frames[df].rows) > 0
    /\ Filtered.rows = << >>

\* the filter's result on table t for the selection S
FilterOf(t, S) == BoolIndex(t, isin(Column(t, "Entering Year"), S))

\* C7: the exported file is the filtered table as the filter left it: the
\* columns of the loaded table and no other, one line per filtered row, and
\* loading it back gives the filtered table.
C7_ExportIsFiltered ==
    Has("download") =>
        /\ out.download.columns = frames[df].columns
        /\ Len(out.download.rows) = Len(FilterOf(frames[df], selected_years).rows)
        /\ load_data(out.download) = FilterOf(frames[df], selected_years)

\* C8: once loaded, the stored table stays as load_data returned it through
\* every run, and so does the table the script names df; every result of a run
\* is the derivation applied to the stored table filtered by the current
\* selection, whatever was selected before.
C8_SourceUnchanged ==
    LET loaded == Loaded
        f      == FilterOf(loaded, selected_years)
    IN
    /\ cache # {} => frames["cache_obj"] = loaded
    /\ df # Unbound => frames[df] = loaded
    /\ Has("total_inquiries") =>
         /\ out.total_inquiries = total_inquiries(f)
         /\ out.total_applications = total_applications(f)
         /\ out.total_accepted = total_accepted(f)
         /\ out.total_contracts = total_contracts(f)
    /\ Has("stage_counts") => out.stage_counts = stage_counts(f)
    /\ Has("status_by_grade") => out.status_by_grade = status_by_grade(f)
    /\ Has("grade_inquiries") => out.grade_inquiries = grade_inquiries(f)
    /\ Has("monthly_inquiries") => out.monthly_inquiries = monthly_inquiries(f)
    /\ Has("fa_dist") =>
         /\ out.gender_dist = dist(f, "Gender")
         /\ out.intl_dist = dist(f, "International")
         /\ out.fa_dist = dist(f, "Financial Aid")
    /\ Has("monthly_apps") =>
         out.monthly_apps =
            monthly_apps(SetColumn(f, "Application Month", Application_Month(f)))
    /\ Has("avg_decision_time") =>
         out.avg_decision_time =
            avg_decision_time(SetColumn(f, "Days_to_Decision", Days_to_Decision(f)))

C8_Witness ==
    /\ pc = "idle"
    /\ Has("download")
    /\ multiselect.touched
    /\ Len(Filtered.rows) > 0
    /\ Len(Filtered.rows) < Len(Loaded.rows)
    /\ "Days_to_Decision" \in Filtered.columns

\* C9: the table a load returns is the table of the file as it is at that
\* load, never that of an earlier content; and a load answers without reading
\* the file only when the file is as it was when the stored table was read.
C9_LoadFollowsSource ==
    pc = "sidebar" =>
        /\ frames[df] = load_data(storage)
        /\ ~read_storage => cached_from = storage

\* what counts as a statistic or a chart on the page
StatsAndCharts ==
    { "stat_cards", "metrics", "fig_funnel", "fig_status", "fig_grade_inquiry",
      "fig_monthly_inquiry", "fig_gender", "fig_intl", "fig_fa", "fig_timeline",
      "fig_decision_time" }

\* C10: a run over an absent file or a file lacking a required column fails
\* before any statistic or chart is on the page (no run draws part of the
\* dashboard and then ends in an error), and no run over such a file ends
\* without an error.
C10_FailsBeforeRendering ==
    /\ error # NoError => rendered \cap StatsAndCharts = {}
    /\ (pc = "idle" /\ error = NoError) => SourceColumns \subseteq frames[df].columns
====
